---------------------------- MODULE Spec2Model ----------------------------
(***************************************************************************)
(* Files2Prompt: the selection tree (FileTreeProvider), the selection      *)
(* history of the copy command and the XML envelope written by copy and    *)
(* read by paste.                                                          *)
(*                                                                         *)
(* Paths are sequences of names below the workspace folder <<"ws">>; the   *)
(* empty sequence is the folder above the workspace, and <<"o.txt">> is a  *)
(* file name in that folder.  Storage maps every                           *)
(* path of a small universe to the kind of entry found there.  The         *)
(* check-state map is JavaScript's Map: a sequence of [key, state]         *)
(* records in insertion order.                                             *)
(***************************************************************************)
EXTENDS Integers, Sequences, FiniteSets, TLC

VARIABLES storage, content, gitignore, ignoredExtensions, systemMessage,
          checkedItems, tasks, history, historyPosition, fired, last, shadow,
          issued, clipboard, changedFiles, newFiles, message

vars == <<storage, content, gitignore, ignoredExtensions, systemMessage,
          checkedItems, tasks, history, historyPosition, fired, last, shadow,
          issued, clipboard, changedFiles, newFiles, message>>

\* What the tree's commands leave alone
envelope == <<content, systemMessage, clipboard, changedFiles, newFiles, message>>

(***************************************************************************)
(* The workspace                                                           *)
(***************************************************************************)
workspaceRoot == <<"ws">>

A  == <<"ws", "a">>
AK == <<"ws", "a", "k">>
AS == <<"ws", "a", "s">>
AX == <<"ws", "a", "x.txt">>
AY == <<"ws", "a", "y.txt">>
B  == <<"ws", "b">>
BZ == <<"ws", "b", "z.txt">>
P  == <<"ws", "p.png">>

\* Every path below the workspace root, in the order of path.join's strings.
PathOrder == <<A, AK, AS, AX, AY, B, BZ, P>>

\* A path in the folder above the workspace root.
Outside == <<"o.txt">>

Paths == {workspaceRoot, Outside} \cup {PathOrder[i] : i \in 1..Len(PathOrder)}

Kinds == {"none", "file", "dir", "linkFile", "linkDir", "linkBroken"}

LinkKinds == {"linkFile", "linkDir", "linkBroken"}

Checked == "Checked"

Unchecked == "Unchecked"

CheckboxStates == {Checked, Unchecked}

\* path.dirname
Dirname(p) == SubSeq(p, 1, Len(p) - 1)

\* String.prototype.startsWith on the joined path
StartsWith(p, prefix) ==
  Len(p) >= Len(prefix) /\ SubSeq(p, 1, Len(prefix)) = prefix

\* path.extname(name).toLowerCase().replace(".", "")
Extname(name) ==
  CASE name = "x.txt" -> "txt"
    [] name = "y.txt" -> "txt"
    [] name = "z.txt" -> "txt"
    [] name = "p.png" -> "png"
    [] OTHER -> ""

(***************************************************************************)
(* Storage as node's fs sees it                                            *)
(***************************************************************************)
\* fs.existsSync follows links: a dangling link does not exist.
ExistsSync(st, p) == p \in Paths /\ st[p] \notin {"none", "linkBroken"}

\* fs.lstatSync(p).isFile() || fs.lstatSync(p).isSymbolicLink()
LstatFileOrLink(st, p) == st[p] \in {"file"} \cup LinkKinds

\* fs.promises.stat(p).isDirectory(), the link followed
StatIsDirectory(st, p) == st[p] \in {"dir", "linkDir"}

\* fs.promises.readdir succeeds on a directory or on a link to one and
\* rejects (ENOENT, ENOTDIR) on anything else.
CanReaddir(st, d) == d \in Paths /\ st[d] \in {"dir", "linkDir"}

\* The Dirents of readdir(d, {withFileTypes: true}): path and the entry's own
\* kind, in name order.  A link's target lies outside the universe; a target
\* directory is empty.
DirEntries(st, d) ==
  LET here(p) == Dirname(p) = d /\ st[p] # "none" /\ st[d] = "dir"
      ps == SelectSeq(PathOrder, here)
  IN  [i \in 1..Len(ps) |-> [path |-> ps[i], kind |-> st[ps[i]]]]

(***************************************************************************)
(* JavaScript's Map<string, TreeItemCheckboxState>                         *)
(***************************************************************************)
MapHas(m, k) == \E i \in 1..Len(m) : m[i].key = k

MapGet(m, k) ==
  IF MapHas(m, k)
  THEN m[CHOOSE i \in 1..Len(m) : m[i].key = k].state
  ELSE "undefined"

\* Map.set keeps the place of a key already present and appends a new one.
MapSet(m, k, v) ==
  IF MapHas(m, k)
  THEN [i \in 1..Len(m) |-> IF m[i].key = k THEN [key |-> k, state |-> v] ELSE m[i]]
  ELSE Append(m, [key |-> k, state |-> v])

\* As MapClear, the first entry left in the map.
MapClearLeavesFirst(m) == IF m = <<>> THEN <<>> ELSE <<Head(m)>>

\* Map.clear
MapClear(m) == <<>>

\* checkedItems.get(key) ?? Unchecked
StateOf(m, k) == IF MapGet(m, k) = Checked THEN Checked ELSE Unchecked

(***************************************************************************)
(* Ignore rules                                                            *)
(***************************************************************************)
\* loadIgnoredExtensions: the setting split at commas
LoadIgnoredExtensions(setting) ==
  CASE setting = "png,jpg,jpeg,gif,svg" -> {"png", "jpg", "jpeg", "gif", "svg"}
    [] setting = "txt" -> {"txt"}
    [] OTHER -> {""}

isGitIgnored(p) == p \in gitignore

\* this.ignoredExtensions.has(extension)
isIgnoredExtension(p) == Extname(p[Len(p)]) \in ignoredExtensions

IsIgnored(p) == isGitIgnored(p) \/ isIgnoredExtension(p)

(***************************************************************************)
(* FileTreeProvider: the synchronous parts                                 *)
(***************************************************************************)
\* getCheckedFiles: the keys, in the map's order, whose state is Checked,
\* that exist and whose lstat says file or symbolic link.
GetCheckedFilesOf(st, m) ==
  LET keep(e) == /\ e.state = Checked
                 /\ ExistsSync(st, e.key)
                 /\ LstatFileOrLink(st, e.key)
      es == SelectSeq(m, keep)
  IN  [i \in 1..Len(es) |-> es[i].key]

\* As UpdateParentState, the ignored entries counted as children too.
UpdateParentStateCountsIgnored(st, m, dirPath) ==
  LET children == DirEntries(st, dirPath)
      allChecked == \A i \in 1..Len(children) :
                      StateOf(m, children[i].path) = Checked
  IN  IF children # <<>> /\ allChecked
      THEN MapSet(m, dirPath, Checked)
      ELSE MapSet(m, dirPath, Unchecked)

\* updateParentState, after its readdir: the loop over the entries and the
\* final set.  The loop's break leaves hasNonIgnoredChild true.
UpdateParentState(st, m, dirPath) ==
  LET notIgnored(e) == ~IsIgnored(e.path)
      children == SelectSeq(DirEntries(st, dirPath), notIgnored)
      hasNonIgnoredChild == children # <<>>
      allChecked == \A i \in 1..Len(children) :
                      StateOf(m, children[i].path) = Checked
  IN  IF hasNonIgnoredChild
      THEN IF allChecked THEN MapSet(m, dirPath, Checked)
                         ELSE MapSet(m, dirPath, Unchecked)
      ELSE MapSet(m, dirPath, Unchecked)

(***************************************************************************)
(* The asynchronous handlers as tasks.  A task is suspended at an await of *)
(* storage (readdir, stat); Resume runs it from there to its next await.   *)
(* pc: "prop" in updateDirectoryCheckState, "walk" in the loop over the    *)
(* parent directories, "done" after refresh(), "failed" when a storage     *)
(* call rejected (the handler's promise rejects; nothing after it runs).   *)
(***************************************************************************)
NoEntry == [path |-> <<>>, kind |-> "none"]

\* As NewFrame, every directory entered as if an ignore rule matched it.
NewFrameAsIgnored(dirPath, parentIsGitIgnored) ==
  [dir |-> dirPath, pign |-> TRUE, waits |-> "readdir",
   entries |-> <<>>, cur |-> NoEntry]

\* A call of updateDirectoryCheckState(dirPath, state, parentIsGitIgnored)
\* at its readdir
NewFrame(dirPath, parentIsGitIgnored) ==
  [dir |-> dirPath, pign |-> parentIsGitIgnored, waits |-> "readdir",
   entries |-> <<>>, cur |-> NoEntry]

NewTask(cmd, key, state) ==
  [cmd |-> cmd, key |-> key, state |-> state, pc |-> "start",
   stack |-> <<>>, walk |-> <<>>, files |-> <<>>]

Out(t, m) == [t |-> t, m |-> m]

\* this.refresh() and the handler's return
Finish(t, m) == Out([t EXCEPT !.pc = "done", !.stack = <<>>, !.walk = <<>>, !.files = <<>>], m)

Fail(t, m) == Out([t EXCEPT !.pc = "failed", !.stack = <<>>, !.walk = <<>>, !.files = <<>>], m)

RECURSIVE BeginWalk(_, _, _)
\* let dirPath = path.dirname(p); while (dirPath.startsWith(workspaceRoot))
\* await this.updateParentState(dirPath): suspended at its readdir.
\* setCheckedFiles goes on with its next file.
BeginWalk(t, m, p) ==
  LET dirPath == Dirname(p)
  IN  IF StartsWith(dirPath, workspaceRoot)
      THEN Out([t EXCEPT !.pc = "walk", !.walk = dirPath], m)
      ELSE IF t.files # <<>>
           THEN BeginWalk([t EXCEPT !.files = Tail(@)], m, Head(t.files))
           ELSE Finish(t, m)

\* As ResumeWalk, the loop over the parent directories left after its first
\* directory.
ResumeWalkOnce(st, t, m) ==
  IF ~CanReaddir(st, t.walk)
  THEN Fail(t, m)
  ELSE IF t.files # <<>>
       THEN BeginWalk([t EXCEPT !.files = Tail(@)],
                      UpdateParentState(st, m, t.walk), Head(t.files))
       ELSE Finish(t, UpdateParentState(st, m, t.walk))

\* updateParentState's readdir has answered.
ResumeWalk(st, t, m) ==
  IF ~CanReaddir(st, t.walk)
  THEN Fail(t, m)
  ELSE LET m1 == UpdateParentState(st, m, t.walk)
           dirPath == Dirname(t.walk)
       IN  IF StartsWith(dirPath, workspaceRoot)
           THEN Out([t EXCEPT !.walk = dirPath], m1)
           ELSE IF t.files # <<>>
                THEN BeginWalk([t EXCEPT !.files = Tail(@)], m1, Head(t.files))
                ELSE Finish(t, m1)

RECURSIVE PropLoop(_, _)
\* updateDirectoryCheckState: the for loop over the entries of the frame on
\* top, up to the next await (a link's stat, the readdir of a subdirectory);
\* a frame whose entries are done returns into the loop of the frame below.
PropLoop(t, m) ==
  IF t.stack = <<>>
  THEN BeginWalk(t, m, t.key)
  ELSE LET f == Head(t.stack)
           below == Tail(t.stack)
       IN  IF f.entries = <<>>
           THEN PropLoop([t EXCEPT !.stack = below], m)
           ELSE LET e == Head(f.entries)
                    rest == [f EXCEPT !.entries = Tail(@)]
                IN  IF ~f.pign /\ (isGitIgnored(e.path) \/ isIgnoredExtension(e.path))
                    THEN PropLoop([t EXCEPT !.stack = <<rest>> \o below], m)
                    ELSE LET m1 == MapSet(m, e.path, t.state)
                         IN  IF e.kind \in LinkKinds
                             THEN Out([t EXCEPT !.stack =
                                        <<[rest EXCEPT !.waits = "stat", !.cur = e]>> \o below], m1)
                             ELSE IF e.kind = "dir"
                             THEN Out([t EXCEPT !.stack =
                                        <<NewFrame(e.path, isGitIgnored(e.path)), rest>> \o below], m1)
                             ELSE PropLoop([t EXCEPT !.stack = <<rest>> \o below], m1)

\* updateDirectoryCheckState: the readdir or the stat it awaits has answered.
ResumeProp(st, t, m) ==
  LET f == Head(t.stack)
      below == Tail(t.stack)
  IN  IF f.waits = "readdir"
      THEN IF ~CanReaddir(st, f.dir)
           THEN Fail(t, m)
           ELSE PropLoop([t EXCEPT !.stack =
                  <<[f EXCEPT !.waits = "loop", !.entries = DirEntries(st, f.dir)]>> \o below], m)
      ELSE LET isBrokenLink == ~ExistsSync(st, f.cur.path)
               isDirectory == StatIsDirectory(st, f.cur.path)
               back == [f EXCEPT !.waits = "loop", !.cur = NoEntry]
           IN  IF isDirectory /\ ~isBrokenLink
               THEN Out([t EXCEPT !.stack =
                      <<NewFrame(f.cur.path, isGitIgnored(f.cur.path)), back>> \o below], m)
               ELSE PropLoop([t EXCEPT !.stack = <<back>> \o below], m)

\* updateCheckState(item, state) up to its first await
StartUpdateCheckState(m, key, isDirectory, state) ==
  LET t == NewTask("updateCheckState", key, state)
      m1 == MapSet(m, key, state)
  IN  IF isDirectory
      THEN Out([t EXCEPT !.pc = "prop",
                         !.stack = <<NewFrame(key, isGitIgnored(key))>>], m1)
      ELSE BeginWalk(t, m1, key)

RECURSIVE MarkExisting(_, _, _)
\* setCheckedFiles' first loop
MarkExisting(st, m, filePaths) ==
  IF filePaths = <<>>
  THEN m
  ELSE MarkExisting(st,
                    IF ExistsSync(st, Head(filePaths))
                    THEN MapSet(m, Head(filePaths), Checked) ELSE m,
                    Tail(filePaths))

\* As StartSetCheckedFiles, the existing checks not cleared first.
StartSetCheckedFilesKeepsChecks(st, filePaths) ==
  LET t == NewTask("setCheckedFiles", <<>>, Checked)
      m1 == MarkExisting(st, checkedItems, filePaths)
  IN  IF filePaths = <<>>
      THEN Finish(t, m1)
      ELSE BeginWalk([t EXCEPT !.files = Tail(filePaths)], m1, Head(filePaths))

\* setCheckedFiles(filePaths) up to its first await
StartSetCheckedFiles(st, filePaths) ==
  LET t == NewTask("setCheckedFiles", <<>>, Checked)
      m1 == MarkExisting(st, MapClear(checkedItems), filePaths)
  IN  IF filePaths = <<>>
      THEN Finish(t, m1)
      ELSE BeginWalk([t EXCEPT !.files = Tail(filePaths)], m1, Head(filePaths))

Running(t) == t.pc \in {"prop", "walk"}

\* One answer from storage delivered to a suspended task.
Resume(st, t, m) ==
  IF t.pc = "prop" THEN ResumeProp(st, t, m) ELSE ResumeWalk(st, t, m)

RECURSIVE RunToEnd(_, _)
\* The task run with nothing else in between, storage as it is.
RunToEnd(st, o) ==
  IF Running(o.t) THEN RunToEnd(st, Resume(st, o.t, o.m)) ELSE o

(***************************************************************************)
(* Text.  A string is a sequence of tokens, a token being a piece of text  *)
(* the XML reader takes as one unit: an opening tag with its name          *)
(* attribute, a closing tag, the opening of a CDATA section, or            *)
(* characters.  "]]>" is characters wherever it stands: it ends a CDATA    *)
(* section only when the reader meets it while looking for that section's  *)
(* end.                                                                    *)
(***************************************************************************)
Open(tag, name) == [k |-> "open", v |-> tag, a |-> name]

Close(tag) == [k |-> "close", v |-> tag, a |-> <<>>]

CDataOpen == [k |-> "cdata", v |-> "<![CDATA[", a |-> <<>>]

Ch(c) == [k |-> "text", v |-> c, a |-> <<>>]

CDataClose == Ch("]]>")

NL == Ch("\n")

\* The number of leading segments two paths share.
CommonLen(a, b) ==
  LET shared == {k \in 0..Len(a) : k <= Len(b) /\ SubSeq(a, 1, k) = SubSeq(b, 1, k)}
  IN  CHOOSE k \in shared : \A j \in shared : j <= k

\* path.relative(workspaceFolders[0].uri.fsPath, filePath): one ".." for
\* every segment of the root the path does not share, then the rest.
Relative(p) ==
  LET k == CommonLen(workspaceRoot, p)
  IN  [i \in 1..(Len(workspaceRoot) - k) |-> ".."] \o SubSeq(p, k + 1, Len(p))

\* path.normalize on the segments of an absolute path: empty and "."
\* segments are dropped, ".." removes the segment before it.
RECURSIVE Normalize(_, _)
Normalize(done, rest) ==
  IF rest = <<>> THEN done
  ELSE LET s == Head(rest)
       IN  IF s \in {"", "."} THEN Normalize(done, Tail(rest))
           ELSE IF s = ".."
             THEN Normalize(IF done = <<>> THEN <<>>
                            ELSE SubSeq(done, 1, Len(done) - 1), Tail(rest))
           ELSE Normalize(Append(done, s), Tail(rest))

\* path.join(workspaceFolders[0].uri.fsPath, fileName)
Join(fileName) == Normalize(<<>>, workspaceRoot \o fileName)

(***************************************************************************)
(* extension.ts: the envelope copy writes                                  *)
(***************************************************************************)
\* The template of lines 178-183 for one file
FileElement(fileName, text) ==
  <<Open("file", fileName), NL, CDataOpen, NL>> \o text
    \o <<NL, CDataClose, NL, Close("file"), NL>>

RECURSIVE XmlContent(_, _)
\* The loop of generateXmlOutput; ct[p] is what readFileSync(p) returns
XmlContent(ct, filePaths) ==
  IF filePaths = <<>>
  THEN <<>>
  ELSE FileElement(Relative(Head(filePaths)), ct[Head(filePaths)])
         \o XmlContent(ct, Tail(filePaths))

\* As generateXmlOutput, only the first file written.
generateXmlOutputFirstOnly(ct, filePaths) ==
  <<Open("files", <<>>), NL>>
    \o (IF filePaths = <<>> THEN <<>>
        ELSE FileElement(Relative(Head(filePaths)), ct[Head(filePaths)]))
    \o <<Close("files")>>

\* generateXmlOutput, lines 168-188
generateXmlOutput(ct, filePaths) ==
  <<Open("files", <<>>), NL>> \o XmlContent(ct, filePaths) \o <<Close("files")>>

\* The characters trim() takes off
Whitespace == {NL, Ch(" ")}

\* As IsBlank, with nothing trimmed: no text counts as blank.
IsBlankNever(text) == FALSE

\* systemMessage.trim() === ""
IsBlank(text) == \A i \in 1..Len(text) : text[i] \in Whitespace

\* copyFiles, lines 50-60
FinalOutput(sys, xmlOutput) ==
  IF sys # <<>> /\ ~IsBlank(sys)
  THEN <<Open("systemMessage", <<>>), NL, CDataOpen, NL>> \o sys
         \o <<NL, CDataClose, NL, Close("systemMessage"), NL>> \o xmlOutput
  ELSE xmlOutput

(***************************************************************************)
(* extension.ts: what parser.parse(xmlContent) returns, the parser being   *)
(* fast-xml-parser's XMLParser with ignoreAttributes false, cdataPropName  *)
(* "__cdata" and trimValues false.  The reader keeps a stack of open       *)
(* elements; a closing tag closes the innermost open element whatever its  *)
(* name; a CDATA section runs to the first "]]>" after its opening and is  *)
(* kept as it stands; text is kept untrimmed.  It throws when a CDATA      *)
(* section has no end and when a tag follows the closing of an element     *)
(* that was never opened.                                                  *)
(***************************************************************************)
XmlNode(tag, name) ==
  [tag |-> tag, name |-> name, cdata |-> <<>>, text |-> <<>>, kids |-> <<>>]

\* The first "]]>" after position i, 0 when there is none
FindClosingIndex(text, i) ==
  LET S == {j \in (i + 1)..Len(text) : text[j] = CDataClose}
  IN  IF S = {} THEN 0 ELSE CHOOSE j \in S : \A l \in S : j <= l

\* saveTextToParentTag: the text collected so far goes to the open element
SaveText(stack, textData) ==
  IF textData = <<>> \/ stack = <<>>
  THEN stack
  ELSE [stack EXCEPT ![Len(stack)].text = @ \o textData]

\* The innermost open element is closed: it is a child of the one below.
PopNode(stack) ==
  LET n == Len(stack)
  IN  [SubSeq(stack, 1, n - 1) EXCEPT ![n - 1].kids = Append(@, stack[n])]

RECURSIVE Collapse(_)
\* At the end of the text the elements still open stay where they are.
Collapse(stack) ==
  IF Len(stack) = 1 THEN stack[1] ELSE Collapse(PopNode(stack))

ParseError == [ok |-> FALSE, root |-> XmlNode("!xml", <<>>)]

RECURSIVE ParseFrom(_, _, _, _, _)
\* stack[1] is the document; detached: the document itself has been closed.
ParseFrom(text, i, stack, textData, detached) ==
  IF i > Len(text)
  THEN [ok |-> TRUE, root |-> Collapse(stack)]
  ELSE LET tok == text[i]
       IN  CASE tok.k = "text" ->
                  ParseFrom(text, i + 1, stack, Append(textData, tok), detached)
             [] tok.k = "cdata" ->
                  LET j == FindClosingIndex(text, i)
                      s == SaveText(stack, textData)
                  IN  IF j = 0 \/ detached
                      THEN ParseError
                      ELSE ParseFrom(text, j + 1,
                                     [s EXCEPT ![Len(s)].cdata =
                                        Append(@, SubSeq(text, i + 1, j - 1))],
                                     <<>>, detached)
             [] tok.k = "open" ->
                  IF detached
                  THEN ParseError
                  ELSE ParseFrom(text, i + 1,
                                 Append(SaveText(stack, textData),
                                        XmlNode(tok.v, tok.a)),
                                 <<>>, detached)
             [] tok.k = "close" ->
                  IF detached
                  THEN ParseFrom(text, i + 1, stack, textData, detached)
                  ELSE IF Len(stack) = 1
                  THEN ParseFrom(text, i + 1, SaveText(stack, textData), <<>>, TRUE)
                  ELSE ParseFrom(text, i + 1, PopNode(SaveText(stack, textData)),
                                 <<>>, detached)

\* As Parse, a text that fails read up to its last CDATA opening.
ParseUpToFailure(text) ==
  LET p == ParseFrom(text, 1, <<XmlNode("!xml", <<>>)>>, <<>>, FALSE)
      S == {i \in 1..Len(text) : text[i] = CDataOpen}
      cut == CHOOSE i \in S : \A j \in S : j <= i
  IN  IF p.ok \/ S = {}
      THEN p
      ELSE ParseFrom(SubSeq(text, 1, cut - 1), 1, <<XmlNode("!xml", <<>>)>>,
                     <<>>, FALSE)

\* parser.parse(xmlContent), lines 207-213
Parse(text) == ParseFrom(text, 1, <<XmlNode("!xml", <<>>)>>, <<>>, FALSE)

KidsNamed(node, tag) == SelectSeq(node.kids, LAMBDA n : n.tag = tag)

\* An element with no attribute, no child and no CDATA section is its text,
\* a string: falsy when empty, and with no property of its own.
IsBareText(node) == node.name = <<>> /\ node.kids = <<>> /\ node.cdata = <<>>

\* fileObj["__cdata"]: absent, a string, or an array of strings when the
\* element holds several sections
\* fileObj["#text"] || "": the element's text
FileObject(node) ==
  [name    |-> node.name,
   content |-> IF Len(node.cdata) = 1 /\ node.cdata[1] # <<>>
               THEN node.cdata[1]
               ELSE IF Len(node.cdata) > 1 THEN <<>> ELSE node.text,
   isArray |-> Len(node.cdata) > 1]

\* As FileEntries, the file elements up to the first one without a name.
FileEntriesUpToNameless(root) ==
  LET e == IF Len(KidsNamed(root, "files")) # 1
           THEN <<>>
           ELSE KidsNamed(KidsNamed(root, "files")[1], "file")
      S == {i \in 1..Len(e) : e[i].name = <<>>}
  IN  IF S = {} THEN e
      ELSE SubSeq(e, 1, (CHOOSE i \in S : \A j \in S : i <= j) - 1)

\* As FileEntries, the file elements last first.
FileEntriesReversed(root) ==
  LET e == IF Len(KidsNamed(root, "files")) # 1
           THEN <<>>
           ELSE KidsNamed(KidsNamed(root, "files")[1], "file")
  IN  [i \in 1..Len(e) |-> e[Len(e) + 1 - i]]

\* As FileEntries, the file elements taken wherever the document has them.
FileEntriesAnywhere(root) ==
  KidsNamed(root, "file")
    \o (IF Len(KidsNamed(root, "files")) = 1
        THEN KidsNamed(KidsNamed(root, "files")[1], "file") ELSE <<>>)

\* jsonObj.files.file, lines 215-224: the file elements of the document's
\* one files element; with several files elements jsonObj.files is an
\* array, which has no property file.
FileEntries(root) ==
  IF Len(KidsNamed(root, "files")) # 1
  THEN <<>>
  ELSE KidsNamed(KidsNamed(root, "files")[1], "file")

\* processXmlContent, lines 207-237: the records the loop applies
Decode(text) ==
  LET p == Parse(text)
      fileNodes == FileEntries(p.root)
  IN  IF ~p.ok
      THEN [status |-> "parseError", files |-> <<>>]
      ELSE IF \/ Len(fileNodes) = 0
              \/ Len(fileNodes) = 1 /\ IsBareText(fileNodes[1])
                                    /\ fileNodes[1].text = <<>>
      THEN [status |-> "noFileContent", files |-> <<>>]
      ELSE [status |-> "ok",
            files |-> [i \in 1..Len(fileNodes) |-> FileObject(fileNodes[i])]]

(***************************************************************************)
(* extension.ts: the loop that writes the records to storage               *)
(***************************************************************************)
\* The directories from the workspace folder down to dir
Ancestors(dir) == {q \in Paths : StartsWith(dir, q)}

\* fs.promises.mkdir(dir, {recursive: true}) rejects when a file or a
\* dangling link stands where a directory is needed.
CanMkdir(st, dir) ==
  \A q \in Ancestors(dir) : st[q] \in {"none", "dir", "linkDir"}

Mkdir(st, dir) ==
  [q \in Paths |-> IF q \in Ancestors(dir) /\ st[q] = "none" THEN "dir" ELSE st[q]]

\* fs.promises.writeFile(filePath, ...): through a link, to what it names
WriteKind(kind) == IF kind = "none" THEN "file"
                   ELSE IF kind = "linkBroken" THEN "linkFile" ELSE kind

RECURSIVE ApplyFiles(_, _)
\* Lines 229-264.  o.ok turns FALSE where an awaited call rejects: the
\* handler ends there, what it wrote before stays written.
ApplyFiles(files, o) ==
  IF files = <<>> \/ ~o.ok
  THEN o
  ELSE LET f == Head(files)
           filePath == Join(f.name)
           fileExists == ExistsSync(o.storage, filePath)
           dir == Dirname(filePath)
           st1 == Mkdir(o.storage, dir)
           written == [o EXCEPT !.storage = [st1 EXCEPT ![filePath] = WriteKind(@)],
                                !.content = [@ EXCEPT ![filePath] = f.content]]
       IN  IF f.name = <<>>
           THEN ApplyFiles(Tail(files), o)
           ELSE IF ~CanMkdir(o.storage, dir)
           THEN [o EXCEPT !.ok = FALSE]
           ELSE IF fileExists
           THEN IF StatIsDirectory(st1, filePath)
                THEN [o EXCEPT !.ok = FALSE, !.storage = st1]
                ELSE IF o.content[filePath] = f.content /\ ~f.isArray
                THEN ApplyFiles(Tail(files), [o EXCEPT !.storage = st1])
                ELSE IF f.isArray
                THEN [o EXCEPT !.ok = FALSE, !.storage = st1]
                ELSE ApplyFiles(Tail(files),
                                [written EXCEPT !.changedFiles = Append(@, f.name)])
           ELSE IF f.isArray
           THEN [o EXCEPT !.ok = FALSE, !.storage = st1]
           ELSE ApplyFiles(Tail(files),
                           [written EXCEPT !.newFiles = Append(@, f.name)])

\* processXmlContent(xmlContent) on storage st with file contents ct
processXmlContent(st, ct, xmlContent) ==
  LET d == Decode(xmlContent)
      o == ApplyFiles(d.files, [ok |-> TRUE, storage |-> st, content |-> ct,
                                changedFiles |-> <<>>, newFiles |-> <<>>])
  IN  IF d.status # "ok"
      THEN [ok |-> TRUE, storage |-> st, content |-> ct, changedFiles |-> <<>>,
            newFiles |-> <<>>, message |-> d.status]
      ELSE [ok |-> o.ok, storage |-> o.storage, content |-> o.content,
            changedFiles |-> IF o.ok THEN o.changedFiles ELSE <<>>,
            newFiles |-> IF o.ok THEN o.newFiles ELSE <<>>,
            message |-> IF ~o.ok THEN "none"
                        ELSE IF o.changedFiles # <<>> \/ o.newFiles # <<>>
                        THEN "updated" ELSE "noChange"]

(***************************************************************************)
(* The state after activate(): a workspace as found, nothing checked, no   *)
(* history.                                                                *)
(***************************************************************************)
Layout(k, s, y, b, z, p) ==
  [q \in Paths |->
     CASE q = workspaceRoot -> "dir"
       [] q = A  -> "dir"
       [] q = AK -> k
       [] q = AS -> s
       [] q = AX -> "file"
       [] q = AY -> y
       [] q = B  -> b
       [] q = BZ -> z
       [] q = P  -> p
       [] q = Outside -> "none"]

\* {a/x.txt, a/y.txt, b/z.txt}
Scenario == Layout("none", "none", "file", "dir", "file", "none")

\* a/x.txt beside a link of kind k and an empty directory; an image at the top
WithLink(k) == Layout(k, "dir", "none", "none", "none", "file")

\* The workspaces at activation, each with its .gitignore rules as the set
\* of paths they ignore: no rule, or the one rule b.
Workspaces ==
  {<<Scenario, {}>>, <<Scenario, {B, BZ}>>}
    \cup {<<WithLink(k), {}>> : k \in LinkKinds}

\* {a/x.txt, a/y.txt}, and a/x.txt beside a link to a directory
TwoFiles == Layout("none", "none", "file", "none", "none", "none")

FileAndLink == Layout("linkDir", "none", "none", "none", "none", "none")

SmallWorkspaces == {<<TwoFiles, {}>>, <<FileAndLink, {}>>}

DefaultIgnoredExtensions == "png,jpg,jpeg,gif,svg"

\* last: the command that ran last, whether it ran to its end, whether it
\* showed a warning (showWarningMessage), and a count (clearChecks: the
\* entries the map held; copyFiles: the history entries it discarded).
NoCommand ==
  [cmd |-> "none", key |-> <<>>, state |-> Unchecked, ok |-> TRUE, n |-> 0,
   warned |-> FALSE, items |-> <<>>]

InitWith(workspaces) ==
  /\ \E w \in workspaces : storage = w[1] /\ gitignore = w[2]
  /\ clipboard = <<>>
  /\ changedFiles = <<>>
  /\ newFiles = <<>>
  /\ message = "none"
  /\ ignoredExtensions = LoadIgnoredExtensions(DefaultIgnoredExtensions)
  /\ checkedItems = <<>>
  /\ tasks = <<>>
  /\ history = <<>>
  /\ historyPosition = -1
  /\ fired = FALSE
  /\ last = NoCommand
  /\ shadow = <<>>
  /\ issued = 0

\* Every file holds the text "a", and no system message is set.
PlainText ==
  /\ content = [q \in Paths |-> IF storage[q] \in {"file", "linkFile"}
                                THEN <<Ch("a")>> ELSE <<>>]
  /\ systemMessage = <<>>

Init == InitWith(SmallWorkspaces) /\ PlainText

InitTree == InitWith(Workspaces) /\ PlainText

\* The items a tree view can show: what getFilesAndDirectories returns for
\* the directories of storage (dangling links are left out).
Items == {p \in Paths \ {workspaceRoot} :
            StartsWith(p, workspaceRoot) /\ ExistsSync(storage, p)}

ItemIsDirectory(p) == StatIsDirectory(storage, p)

(***************************************************************************)
(* The commands, each run to its end before the next one starts            *)
(***************************************************************************)
\* treeView.onDidChangeCheckboxState for one item
UpdateCheckState(p, state) ==
  LET o == RunToEnd(storage,
                    StartUpdateCheckState(checkedItems, p, ItemIsDirectory(p), state))
  IN  /\ checkedItems' = o.m
      /\ fired' = (o.t.pc = "done")
      /\ last' = [NoCommand EXCEPT !.cmd = "updateCheckState", !.key = p,
                                   !.state = state, !.ok = (o.t.pc = "done")]
      /\ shadow' = o.m
      /\ UNCHANGED <<storage, gitignore, ignoredExtensions, tasks, history,
                     historyPosition, issued>>
      /\ UNCHANGED envelope

\* files2prompt.clearChecks: clearChecks() has no await
DoClearChecks ==
  /\ checkedItems' = MapClear(checkedItems)
  /\ fired' = TRUE
  /\ last' = [NoCommand EXCEPT !.cmd = "clearChecks", !.n = Len(checkedItems)]
  /\ shadow' = MapClear(shadow)
  /\ UNCHANGED <<storage, gitignore, ignoredExtensions, tasks, history,
                 historyPosition>>
  /\ UNCHANGED envelope

ClearChecks == DoClearChecks /\ UNCHANGED issued

NextTree ==
  \/ \E p \in Items, state \in CheckboxStates : UpdateCheckState(p, state)
  \/ ClearChecks

\* Toggles and clears on a workspace that does not change.
SpecTree == InitTree /\ [][NextTree]_vars

(***************************************************************************)
(* extension.ts: the selection history of the copy command                 *)
(***************************************************************************)
\* Array.prototype.sort's order on the joined paths
Rank(p) == CHOOSE i \in 1..Len(PathOrder) : PathOrder[i] = p

RECURSIVE InsertSorted(_, _)
InsertSorted(sorted, p) ==
  IF sorted = <<>> \/ Rank(p) < Rank(Head(sorted))
  THEN <<p>> \o sorted
  ELSE <<Head(sorted)>> \o InsertSorted(Tail(sorted), p)

RECURSIVE SortPaths(_)
\* [...a].sort()
SortPaths(a) ==
  IF a = <<>> THEN <<>> ELSE InsertSorted(SortPaths(Tail(a)), Head(a))

\* As arraysEqual, the arrays compared as they stand.
arraysEqualInOrder(a, b) == a = b

\* As arraysEqual, no two selections taken as equal.
arraysEqualNever(a, b) == FALSE

arraysEqual(a, b) ==
  IF Len(a) # Len(b)
  THEN FALSE
  ELSE \A i \in 1..Len(a) : SortPaths(a)[i] = SortPaths(b)[i]

\* history[historyPosition] || [], the array's indices starting at 0
LastSelection(h, pos) ==
  IF pos >= 0 /\ pos < Len(h) THEN h[pos + 1] ELSE <<>>

\* As RecordSelection, the cursor left where it was.
RecordSelectionNoAdvance(h, pos, checkedFiles) ==
  IF ~arraysEqual(checkedFiles, LastSelection(h, pos))
  THEN [history |-> Append(IF pos < Len(h) - 1 THEN SubSeq(h, 1, pos + 1) ELSE h,
                           checkedFiles),
        historyPosition |-> pos]
  ELSE [history |-> h, historyPosition |-> pos]

\* As RecordSelection, the entries after the cursor kept.
RecordSelectionKeepsTail(h, pos, checkedFiles) ==
  IF ~arraysEqual(checkedFiles, LastSelection(h, pos))
  THEN [history |-> Append(h, checkedFiles), historyPosition |-> pos + 1]
  ELSE [history |-> h, historyPosition |-> pos]

\* copyFiles, lines 36-43: what becomes of history and historyPosition
RecordSelection(h, pos, checkedFiles) ==
  IF ~arraysEqual(checkedFiles, LastSelection(h, pos))
  THEN [history |-> Append(IF pos < Len(h) - 1 THEN SubSeq(h, 1, pos + 1) ELSE h,
                           checkedFiles),
        historyPosition |-> pos + 1]
  ELSE [history |-> h, historyPosition |-> pos]

\* generateXmlOutput's fs.readFileSync throws on a directory (EISDIR), a
\* link to one included.
CanReadFile(st, p) == st[p] \in {"file", "linkFile"}

\* The entries a history may hold in the model
MaxHistory == 2

GetCheckedFiles == GetCheckedFilesOf(storage, checkedItems)

\* As NoFilesSelected, an empty selection let through.
NoFilesSelectedNever(checkedFiles) == FALSE

\* copyFiles, line 31: checkedFiles.length === 0
NoFilesSelected(checkedFiles) == Len(checkedFiles) = 0

\* files2prompt.copyFiles
CopyFiles ==
  LET checkedFiles == GetCheckedFiles
      r == RecordSelection(history, historyPosition, checkedFiles)
      readable == \A i \in 1..Len(checkedFiles) : CanReadFile(storage, checkedFiles[i])
  IN  /\ r.historyPosition < MaxHistory
      /\ IF NoFilesSelected(checkedFiles)
         THEN /\ last' = [NoCommand EXCEPT !.cmd = "copyFiles", !.ok = FALSE,
                                           !.warned = TRUE]
              /\ UNCHANGED <<history, historyPosition, clipboard>>
         ELSE /\ history' = r.history
              /\ historyPosition' = r.historyPosition
              /\ clipboard' = IF readable
                              THEN FinalOutput(systemMessage,
                                               generateXmlOutput(content, checkedFiles))
                              ELSE clipboard
              /\ last' = [NoCommand EXCEPT !.cmd = "copyFiles", !.ok = readable,
                                           !.n = IF r.history = history THEN 0
                                                 ELSE Len(history) + 1 - Len(r.history)]
      /\ UNCHANGED <<storage, gitignore, ignoredExtensions, checkedItems, tasks,
                     fired, shadow, issued>>
      /\ UNCHANGED <<content, systemMessage, changedFiles, newFiles, message>>

\* goBack and goForward after the cursor has moved: setCheckedFiles
Restore(cmd, pos) ==
  LET o == RunToEnd(storage, StartSetCheckedFiles(storage, history[pos + 1]))
  IN  /\ historyPosition' = pos
      /\ checkedItems' = o.m
      /\ shadow' = o.m
      /\ fired' = (o.t.pc = "done")
      /\ last' = [NoCommand EXCEPT !.cmd = cmd, !.ok = (o.t.pc = "done")]
      /\ UNCHANGED <<storage, gitignore, ignoredExtensions, tasks, history, issued>>
      /\ UNCHANGED envelope

\* As Warn, the cursor put back before the first entry.
WarnResetsCursor(cmd) ==
  /\ last' = [NoCommand EXCEPT !.cmd = cmd, !.ok = FALSE, !.warned = TRUE]
  /\ historyPosition' = -1
  /\ UNCHANGED <<storage, gitignore, ignoredExtensions, checkedItems, tasks,
                 history, fired, shadow, issued>>
  /\ UNCHANGED envelope

\* showWarningMessage: nothing else happens
Warn(cmd) ==
  /\ last' = [NoCommand EXCEPT !.cmd = cmd, !.ok = FALSE, !.warned = TRUE]
  /\ UNCHANGED <<storage, gitignore, ignoredExtensions, checkedItems, tasks,
                 history, historyPosition, fired, shadow, issued>>
  /\ UNCHANGED envelope

\* files2prompt.goBack
GoBack ==
  IF historyPosition > 0
  THEN Restore("goBack", historyPosition - 1)
  ELSE Warn("goBack")

\* files2prompt.goForward
GoForward ==
  IF historyPosition < Len(history) - 1
  THEN Restore("goForward", historyPosition + 1)
  ELSE Warn("goForward")

(***************************************************************************)
(* Storage changes under the extension (the watcher only refreshes)        *)
(***************************************************************************)
\* rm -r p
Remove(p) ==
  /\ storage[p] # "none"
  /\ storage' = [q \in Paths |-> IF StartsWith(q, p) THEN "none" ELSE storage[q]]
  /\ fired' = fired
  /\ last' = [NoCommand EXCEPT !.cmd = "remove", !.key = p]
  /\ UNCHANGED <<gitignore, ignoredExtensions, checkedItems, tasks, history,
                 historyPosition, shadow, issued>>
  /\ content' = [q \in Paths |-> IF StartsWith(q, p) THEN <<>> ELSE content[q]]
  /\ UNCHANGED <<systemMessage, clipboard, changedFiles, newFiles, message>>

\* What is removed in the model: a file, and the directory with all in it
Removable == {AX, A}

Next ==
  \/ \E p \in Items, state \in CheckboxStates : UpdateCheckState(p, state)
  \/ ClearChecks
  \/ CopyFiles
  \/ GoBack
  \/ GoForward
  \/ \E p \in Removable : Remove(p)

Spec == Init /\ [][Next]_vars

(***************************************************************************)
(* Copy and paste: the envelope goes to the clipboard, a reply comes back  *)
(* through it                                                              *)
(***************************************************************************)
\* The characters of a file's text in the model, and the longest text a
\* file starts with
MaxContentLen == 1

Alphabet == {Ch("a"), CDataClose}

Contents == UNION {[1..n -> Alphabet] : n \in 0..MaxContentLen}

\* The files2prompt.systemMessage setting: unset, plain, holding "]]>",
\* whitespace only
SystemMessages == {<<>>, <<Ch("s")>>, <<CDataClose>>, <<Ch(" "), NL>>}

\* Any text in a/x.txt with no system message, or any system message with
\* a plain a/x.txt
PasteSettings ==
  {<<c, <<>>>> : c \in Contents} \cup {<<<<Ch("a")>>, s>> : s \in SystemMessages}

InitPaste ==
  /\ InitWith({<<TwoFiles, {}>>})
  /\ \E w \in PasteSettings :
       /\ content = [q \in Paths |-> IF q = AX THEN w[1]
                                     ELSE IF q = AY THEN <<Ch("b")>> ELSE <<>>]
       /\ systemMessage = w[2]

\* The longest text the model lets a paste write
MaxFileLen == 3

\* The records a reply may hold
MaxRecords == 2

\* The replies copied in one run of the model
MaxReplies == 1

ReplyNames == {Relative(AX), Relative(BZ)}

ReplyContents == {<<Ch("c")>>, <<Ch("d")>>}

ReplyPairs == [name : ReplyNames, content : ReplyContents]

RECURSIVE ReplyContent(_)
ReplyContent(pairs) ==
  IF pairs = <<>>
  THEN <<>>
  ELSE FileElement(Head(pairs).name, Head(pairs).content)
         \o ReplyContent(Tail(pairs))

\* A reply written in the envelope's own layout
Reply(pairs) ==
  <<Open("files", <<>>), NL>> \o ReplyContent(pairs) \o <<Close("files")>>

Replies == {Reply(pairs) : pairs \in UNION {[1..n -> ReplyPairs] : n \in 0..MaxRecords}}

\* A reply cut off inside its second entry's CDATA section
CutOff ==
  <<Open("files", <<>>), NL>> \o FileElement(Relative(BZ), <<Ch("c")>>)
    \o <<Open("file", Relative(AX)), NL, CDataOpen, NL, Ch("c")>>

\* A files element around the tokens of its entries
Files(entries) == <<Open("files", <<>>), NL>> \o entries \o <<Close("files")>>

\* An entry for a/x.txt whose CDATA section is empty, on lines of its own
EmptySection ==
  Files(<<Open("file", Relative(AX)), NL, CDataOpen, CDataClose, NL,
          Close("file"), NL>>)

\* An entry for a/x.txt with its content as plain text, no CDATA section
PlainEntry == Files(<<Open("file", Relative(AX)), Ch("c"), Close("file"), NL>>)

\* An entry for a/x.txt with nothing between its tags
BareEntry == Files(<<Open("file", Relative(AX)), Close("file"), NL>>)

\* An entry with no name attribute between two entries that have one
NamelessBetween ==
  Files(FileElement(Relative(BZ), <<Ch("c")>>) \o FileElement(<<>>, <<Ch("d")>>)
          \o FileElement(Relative(AX), <<Ch("d")>>))

\* An entry whose name climbs out of the workspace folder: ../o.txt
Escaping == Files(FileElement(<<"..", "o.txt">>, <<Ch("c")>>))

\* An entry whose name starts with a separator: /b/z.txt
LeadingSeparator == Files(FileElement(<<"", "b", "z.txt">>, <<Ch("c")>>))

\* Texts that are no reply in the envelope's layout: plain words, a file
\* entry with no files element around it, a reply cut off, entries without
\* content in a CDATA section, an entry without a name, names that are not
\* the relative path of a file below the workspace folder
OtherTexts ==
  { <<Ch("c")>>,
    FileElement(Relative(AX), <<Ch("c")>>),
    CutOff,
    EmptySection,
    PlainEntry,
    BareEntry,
    NamelessBetween,
    Escaping,
    LeadingSeparator }

ClipboardTexts == Replies \cup OtherTexts

\* The user copies a text: vscode.env.clipboard holds it.
SetClipboard(text) ==
  /\ issued < MaxReplies
  /\ issued' = issued + 1
  /\ clipboard' = text
  /\ last' = [NoCommand EXCEPT !.cmd = "setClipboard"]
  /\ UNCHANGED <<storage, gitignore, ignoredExtensions, checkedItems, tasks,
                 history, historyPosition, fired, shadow, content,
                 systemMessage, changedFiles, newFiles, message>>

\* files2prompt.pasteXml: last.n is 2 when the paste before it was the
\* command before it.
PasteXml ==
  LET d == Decode(clipboard)
      r == processXmlContent(storage, content, clipboard)
  IN  /\ \A i \in 1..Len(d.files) : Len(d.files[i].content) <= MaxFileLen
      /\ storage' = r.storage
      /\ content' = r.content
      /\ changedFiles' = r.changedFiles
      /\ newFiles' = r.newFiles
      /\ message' = r.message
      /\ last' = [NoCommand EXCEPT !.cmd = "pasteXml", !.ok = r.ok,
                                   !.n = IF last.cmd = "pasteXml" /\ last.ok
                                         THEN 2 ELSE 1]
      /\ UNCHANGED <<gitignore, ignoredExtensions, checkedItems, tasks, history,
                     historyPosition, fired, shadow, issued, systemMessage,
                     clipboard>>

NextPaste ==
  \/ \E p \in Items : checkedItems = <<>> /\ UpdateCheckState(p, Checked)
  \/ CopyFiles
  \/ \E text \in ClipboardTexts : SetClipboard(text)
  \/ PasteXml

\* One item checked, then copies, replies and pastes in any order.
SpecPaste == InitPaste /\ [][NextPaste]_vars

(***************************************************************************)
(* The handlers as the extension host runs them: an event's handler runs   *)
(* to its first await and returns; each answer from storage resumes the    *)
(* handler that awaits it, in any order; other events are handled in       *)
(* between.  shadow is the map the same commands give when each runs to    *)
(* its end before the next one starts.                                     *)
(***************************************************************************)
MaxTasks == 2

\* The commands issued in one run of the interleaved model
MaxIssued == 2

RemoveAt(q, i) == SubSeq(q, 1, i - 1) \o SubSeq(q, i + 1, Len(q))

\* onDidChangeCheckboxState fires: updateCheckState runs to its first await.
BeginUpdateCheckState(p, state) ==
  LET o == StartUpdateCheckState(checkedItems, p, ItemIsDirectory(p), state)
      seq == RunToEnd(storage,
                      StartUpdateCheckState(shadow, p, ItemIsDirectory(p), state))
  IN  /\ Len(tasks) < MaxTasks
      /\ issued < MaxIssued
      /\ issued' = issued + 1
      /\ checkedItems' = o.m
      /\ tasks' = IF Running(o.t) THEN Append(tasks, o.t) ELSE tasks
      /\ fired' = (o.t.pc = "done")
      /\ shadow' = seq.m
      /\ last' = [NoCommand EXCEPT !.cmd = "updateCheckState", !.key = p,
                                   !.state = state]
      /\ UNCHANGED <<storage, gitignore, ignoredExtensions, history,
                     historyPosition>>
      /\ UNCHANGED envelope

\* An awaited readdir or stat answers: its handler goes on to the next await.
Deliver(i) ==
  LET o == Resume(storage, tasks[i], checkedItems)
  IN  /\ checkedItems' = o.m
      /\ tasks' = IF Running(o.t)
                  THEN [tasks EXCEPT ![i] = o.t]
                  ELSE RemoveAt(tasks, i)
      /\ fired' = IF o.t.pc = "done" THEN TRUE
                  ELSE IF o.m # checkedItems THEN FALSE ELSE fired
      /\ last' = [NoCommand EXCEPT !.cmd = "deliver", !.key = tasks[i].key,
                                   !.state = tasks[i].state,
                                   !.ok = (o.t.pc # "failed")]
      /\ UNCHANGED <<storage, gitignore, ignoredExtensions, history,
                     historyPosition, shadow, issued>>
      /\ UNCHANGED envelope

\* files2prompt.clearChecks while handlers are suspended
BeginClearChecks ==
  /\ issued < MaxIssued
  /\ issued' = issued + 1
  /\ DoClearChecks

NextAsync ==
  \/ \E p \in Items, state \in CheckboxStates : BeginUpdateCheckState(p, state)
  \/ BeginClearChecks
  \/ \E i \in 1..Len(tasks) : Deliver(i)

SpecAsync == InitTree /\ [][NextAsync]_vars

(***************************************************************************)
(* FileTreeProvider: the listing the tree view asks for, and what happens  *)
(* around the extension (files created and removed, the setting changed)   *)
(***************************************************************************)
\* a.isDirectory() || a.isSymbolicLink(), line 85
SortsAsDirectory(kind) == kind \in {"dir"} \cup LinkKinds

\* dirEntries.sort, lines 84-90; readdir's entries come in name order
SortEntries(entries) ==
  SelectSeq(entries, LAMBDA e : SortsAsDirectory(e.kind))
    \o SelectSeq(entries, LAMBDA e : ~SortsAsDirectory(e.kind))

\* As IsBrokenLink, no link taken as broken.
IsBrokenLinkNever(st, e) == FALSE

\* Lines 97-109: the entry is a link and stat(fullPath) rejects
IsBrokenLink(st, e) == e.kind \in LinkKinds /\ ~ExistsSync(st, e.path)

\* new FileItem(...), lines 139-149
FileItem(st, e, checkboxState) ==
  [path |-> e.path,
   isDirectory |-> StatIsDirectory(st, e.path),
   checkboxState |-> checkboxState,
   isGitIgnored |-> isGitIgnored(e.path) \/ isIgnoredExtension(e.path),
   isSymbolicLink |-> e.kind \in LinkKinds]

RECURSIVE ListLoop(_, _, _, _)
\* The for loop of lines 92-152 over the sorted entries: o.m is the map,
\* o.items the items pushed so far
ListLoop(st, entries, m, items) ==
  IF entries = <<>>
  THEN [ok |-> TRUE, m |-> m, items |-> items]
  ELSE LET e == Head(entries)
           known == MapGet(m, e.path)
           inherits == /\ MapGet(m, Dirname(e.path)) = Checked
                       /\ ~isGitIgnored(e.path)
                       /\ ~isIgnoredExtension(e.path)
           checkboxState == IF known # "undefined" THEN known
                            ELSE IF inherits THEN Checked ELSE Unchecked
           m1 == IF known = "undefined" /\ inherits
                 THEN MapSet(m, e.path, Checked) ELSE m
       IN  IF IsBrokenLink(st, e)
           THEN ListLoop(st, Tail(entries), m, items)
           ELSE ListLoop(st, Tail(entries), m1,
                         Append(items, FileItem(st, e, checkboxState)))

\* getFilesAndDirectories(dirPath): its readdir rejects when dirPath is no
\* directory any more, and nothing catches that.
getFilesAndDirectories(st, m, dirPath) ==
  IF ~CanReaddir(st, dirPath)
  THEN [ok |-> FALSE, m |-> m, items |-> <<>>]
  ELSE ListLoop(st, SortEntries(DirEntries(st, dirPath)), m, <<>>)

\* What is created and what is removed around the extension in the model
Creatable == {AY}

ListRemovable == {A}

\* The values the setting files2prompt.ignoredExtensions takes
Settings == {"txt", ""}

\* The changes around the extension in one run of the model
MaxChanges == 1

\* The directories the view holds an element for: the workspace folder, the
\* directories of storage, and a directory it has shown that is gone since.
Listable ==
  {d \in Paths : \/ d = workspaceRoot
                 \/ StatIsDirectory(storage, d)
                 \/ d \in ListRemovable /\ storage[d] = "none"}

\* getChildren(element): last.ok is FALSE when the promise rejects,
\* last.items is what it resolves to.
GetChildren(d) ==
  LET r == getFilesAndDirectories(storage, checkedItems, d)
  IN  /\ checkedItems' = r.m
      /\ shadow' = r.m
      /\ last' = [NoCommand EXCEPT !.cmd = "getChildren", !.key = d,
                                   !.ok = r.ok, !.items = r.items]
      /\ UNCHANGED <<storage, gitignore, ignoredExtensions, tasks, history,
                     historyPosition, fired, issued>>
      /\ UNCHANGED envelope

\* A file appears in a directory of the workspace; the watcher's onDidCreate
\* refreshes.
Create(p) ==
  /\ issued < MaxChanges
  /\ storage[p] = "none"
  /\ storage[Dirname(p)] = "dir"
  /\ issued' = issued + 1
  /\ storage' = [storage EXCEPT ![p] = "file"]
  /\ content' = [content EXCEPT ![p] = <<Ch("a")>>]
  /\ fired' = TRUE
  /\ last' = [NoCommand EXCEPT !.cmd = "create", !.key = p]
  /\ UNCHANGED <<gitignore, ignoredExtensions, checkedItems, tasks, history,
                 historyPosition, shadow>>
  /\ UNCHANGED <<systemMessage, clipboard, changedFiles, newFiles, message>>

\* A directory of the workspace is removed with all that is in it.
RemoveDirectory(p) ==
  /\ issued < MaxChanges
  /\ issued' = issued + 1
  /\ storage[p] # "none"
  /\ storage' = [q \in Paths |-> IF StartsWith(q, p) THEN "none" ELSE storage[q]]
  /\ content' = [q \in Paths |-> IF StartsWith(q, p) THEN <<>> ELSE content[q]]
  /\ fired' = TRUE
  /\ last' = [NoCommand EXCEPT !.cmd = "remove", !.key = p]
  /\ UNCHANGED <<gitignore, ignoredExtensions, checkedItems, tasks, history,
                 historyPosition, shadow>>
  /\ UNCHANGED <<systemMessage, clipboard, changedFiles, newFiles, message>>

\* onDidChangeConfiguration for files2prompt.ignoredExtensions, lines 34-39
ChangeIgnoredExtensions(setting) ==
  /\ issued < MaxChanges
  /\ issued' = issued + 1
  /\ ignoredExtensions' = LoadIgnoredExtensions(setting)
  /\ fired' = TRUE
  /\ last' = [NoCommand EXCEPT !.cmd = "configuration"]
  /\ UNCHANGED <<storage, gitignore, checkedItems, tasks, history,
                 historyPosition, shadow>>
  /\ UNCHANGED envelope

\* The workspaces the listing is followed in: a link of each kind beside a
\* directory and a file
ListWorkspaces == {<<WithLink(k), {}>> : k \in LinkKinds}

InitList == InitWith(ListWorkspaces) /\ PlainText

\* The workspaces the ignore rules are followed in: the rule b, which
\* matches the directory and what is in it; the rule b/, which matches what
\* is in the directory and not the path b itself; no rule, with a link to a
\* directory and a directory in a
IgnoreWorkspaces ==
  {<<Scenario, {B, BZ}>>, <<Scenario, {BZ}>>, <<WithLink("linkDir"), {}>>}

\* The state after activate() with the setting as the user has it
InitIgnore ==
  /\ \E w \in IgnoreWorkspaces : storage = w[1] /\ gitignore = w[2]
  /\ \E setting \in {DefaultIgnoredExtensions} \cup Settings :
       ignoredExtensions = LoadIgnoredExtensions(setting)
  /\ clipboard = <<>>
  /\ changedFiles = <<>>
  /\ newFiles = <<>>
  /\ message = "none"
  /\ checkedItems = <<>>
  /\ tasks = <<>>
  /\ history = <<>>
  /\ historyPosition = -1
  /\ fired = FALSE
  /\ last = NoCommand
  /\ shadow = <<>>
  /\ issued = 0
  /\ PlainText

\* Toggles and clears under each setting and each set of rules.
SpecIgnore == InitIgnore /\ [][NextTree]_vars

NextList ==
  \/ \E p \in Items : UpdateCheckState(p, Checked)
  \/ \E d \in Listable : GetChildren(d)
  \/ \E p \in Creatable : Create(p)
  \/ \E p \in ListRemovable : RemoveDirectory(p)
  \/ \E setting \in Settings : ChangeIgnoredExtensions(setting)

\* Items checked and directories listed while files come and go and the
\* setting changes.
SpecList == InitList /\ [][NextList]_vars

(***************************************************************************)
(* Properties                                                              *)
(***************************************************************************)
SetOf(seq) == {seq[i] : i \in 1..Len(seq)}

\* The entries of directory D that no ignore rule and no ignored extension
\* excludes
NonIgnoredChildren(D) ==
  {p \in Paths : Dirname(p) = D /\ storage[p] # "none" /\ ~IsIgnored(p)}

AllChildrenChecked(D) ==
  \A p \in NonIgnoredChildren(D) : StateOf(checkedItems, p) = Checked

Directories == {D \in Paths : storage[D] = "dir"}

RECURSIVE UnderIgnored(_)
UnderIgnored(p) ==
  IF ~StartsWith(p, workspaceRoot) \/ p = workspaceRoot
  THEN FALSE
  ELSE IsIgnored(p) \/ UnderIgnored(Dirname(p))

NonIgnoredBelow(D) ==
  {p \in Paths : /\ p # D
                 /\ StartsWith(p, D)
                 /\ storage[p] # "none"
                 /\ ~UnderIgnored(p)}

\* A path that denotes a plain file: a file, or a link that leads to one
DenotesFile(p) == storage[p] \in {"file", "linkFile"}

\* C6: getCheckedFiles() returns exactly the paths that are Checked in the
\* map, exist and denote a plain file; no directory and no missing path.
C6_CheckedFilesArePlainFiles ==
  SetOf(GetCheckedFiles) =
    {p \in Paths : /\ MapGet(checkedItems, p) = Checked
                   /\ ExistsSync(storage, p)
                   /\ DenotesFile(p)}

\* C6 witness: a Checked link to a file is returned, a Checked directory
\* beside it is not.
C6_Witness ==
  /\ storage[AK] = "linkFile"
  /\ AK \in SetOf(GetCheckedFiles)
  /\ MapGet(checkedItems, AS) = Checked
  /\ AS \notin SetOf(GetCheckedFiles)

\* C7: checking a non-ignored directory D while the map is empty marks D
\* and all that is below it and not ignored Checked, and getCheckedFiles()
\* is then exactly the non-ignored plain files below D.
C7_CheckDirectoryFromEmpty ==
  [][\A D \in Paths :
       ( /\ checkedItems = <<>>
         /\ last'.cmd = "updateCheckState"
         /\ last'.key = D
         /\ last'.state = Checked
         /\ storage[D] = "dir"
         /\ ~IsIgnored(D) )
       => /\ MapGet(checkedItems', D) = Checked
          /\ \A p \in NonIgnoredBelow(D) : MapGet(checkedItems', p) = Checked
          /\ SetOf(GetCheckedFilesOf(storage', checkedItems'))
               = {p \in NonIgnoredBelow(D) : DenotesFile(p)}]_vars

\* C7 witness: a was checked from an empty map in the workspace whose b is
\* ignored, and x.txt and y.txt are what getCheckedFiles() returns.
C7_Witness ==
  /\ last.cmd = "updateCheckState"
  /\ last.key = A
  /\ last.state = Checked
  /\ IsIgnored(B)
  /\ SetOf(GetCheckedFiles) = {AX, AY}
  /\ Len(checkedItems) = 4

\* C8: after clearChecks() the map is empty, getCheckedFiles() is empty and
\* every path reads Unchecked.
C8_ClearEmptiesTheMap ==
  last.cmd = "clearChecks" =>
    /\ checkedItems = <<>>
    /\ GetCheckedFiles = <<>>
    /\ \A p \in Paths : StateOf(checkedItems, p) = Unchecked

\* C8 witness: clearChecks ran on a map that held entries, with a history
\* recorded before.
C8_Witness ==
  /\ last.cmd = "clearChecks"
  /\ last.n >= 3
  /\ history # <<>>

\* C2: commands do not interleave: once every handler has returned, every
\* path reads from the map the state it reads from the map that the same
\* commands give when each one runs to its end before the next one starts.
C2_CommandsRunOneAfterTheOther ==
  tasks = <<>> =>
    \A p \in Paths : StateOf(checkedItems, p) = StateOf(shadow, p)

\* C2 witness: two commands were issued, the second while the first was
\* suspended, and both have returned.
C2_Witness ==
  /\ issued = 2
  /\ tasks = <<>>
  /\ last.cmd = "deliver"
  /\ \E p \in Paths : StateOf(checkedItems, p) # StateOf(shadow, p)

\* The files of a snapshot that are still in storage
StillExisting(snapshot) == {p \in SetOf(snapshot) : ExistsSync(storage, p)}

\* C9: go back (go forward) away from the end moves the cursor by one entry,
\* leaves the entries alone, and getCheckedFiles() is afterwards, as a set,
\* the still-existing files of the snapshot at the new cursor.
C9_RestoreSelectsTheSnapshot ==
  [][/\ (last'.cmd = "goBack" /\ historyPosition > 0)
          => /\ historyPosition' = historyPosition - 1
             /\ history' = history
             /\ SetOf(GetCheckedFilesOf(storage', checkedItems'))
                  = StillExisting(history[historyPosition' + 1])
     /\ (last'.cmd = "goForward" /\ historyPosition < Len(history) - 1)
          => /\ historyPosition' = historyPosition + 1
             /\ history' = history
             /\ SetOf(GetCheckedFilesOf(storage', checkedItems'))
                  = StillExisting(history[historyPosition' + 1])]_vars

\* C9 witness: after copy {x.txt}, copy {z.txt} and go back, the selection
\* is {x.txt} again.
C9_Witness ==
  /\ last.cmd = "goBack"
  /\ last.ok
  /\ history = <<(<<AX>>), (<<AY>>)>>
  /\ historyPosition = 0
  /\ GetCheckedFiles = <<AX>>

\* C10: a copy whose selection is not, as a set, the entry at the cursor
\* drops the entries after the cursor, appends the selection and leaves the
\* cursor on it, the last entry; the entries up to the old cursor stay.
C10_CopyTruncatesAndAppends ==
  [][( /\ last'.cmd = "copyFiles"
       /\ GetCheckedFiles # <<>>
       /\ SetOf(GetCheckedFiles) # SetOf(LastSelection(history, historyPosition)) )
     => /\ history' = Append(SubSeq(history, 1, historyPosition + 1), GetCheckedFiles)
        /\ historyPosition' = Len(history') - 1]_vars

\* C10 witness: a copy has dropped an entry after the cursor and appended
\* its own selection behind the first entry.
C10_Witness ==
  /\ last.cmd = "copyFiles"
  /\ last.ok
  /\ last.n = 1
  /\ Len(history) = 2
  /\ historyPosition = 1
  /\ history[2] = GetCheckedFiles

(***************************************************************************)
(* The envelope                                                            *)
(***************************************************************************)
\* The (name, content) pairs generateXmlOutput reads for the checked files
CopiedPairs ==
  [i \in 1..Len(GetCheckedFiles) |->
     [name |-> Relative(GetCheckedFiles[i]), content |-> content[GetCheckedFiles[i]]]]

\* The (name, content) pairs processXmlContent applies for a text
DecodedPairs(text) ==
  LET d == Decode(text)
  IN  [i \in 1..Len(d.files) |->
         [name |-> d.files[i].name, content |-> d.files[i].content]]

HoldsMarker(text) == \E i \in 1..Len(text) : text[i] = CDataClose

Copied == last.cmd = "copyFiles" /\ last.ok

\* C3 as stated: the text a copy has written decodes to the pairs the copy
\* read, the same in number, order, names and contents, whatever the
\* contents hold ("]]>" and the empty text included).
C3_RoundTrip ==
  Copied => Decode(clipboard).status = "ok" /\ DecodedPairs(clipboard) = CopiedPairs

\* A copy has written a file whose text holds "]]>".
C3_Witness ==
  Copied /\ \E i \in 1..Len(CopiedPairs) : HoldsMarker(CopiedPairs[i].content)

RECURSIVE ReadSections(_, _)
\* The CDATA sections a reader finds in a text from position i on
ReadSections(text, i) ==
  IF i > Len(text)
  THEN <<>>
  ELSE IF text[i] # CDataOpen
  THEN ReadSections(text, i + 1)
  ELSE LET j == FindClosingIndex(text, i)
       IN  IF j = 0
           THEN <<SubSeq(text, i + 1, Len(text))>>
           ELSE <<SubSeq(text, i + 1, j - 1)>> \o ReadSections(text, j + 1)

\* The sections a copy opens: the preamble's when there is one, then one
\* for each file, each from its opening to the "]]>" the copy puts after it
WrittenSections ==
  (IF systemMessage # <<>> /\ ~IsBlank(systemMessage)
   THEN <<<<NL>> \o systemMessage \o <<NL>>>> ELSE <<>>)
    \o [i \in 1..Len(CopiedPairs) |-> <<NL>> \o CopiedPairs[i].content \o <<NL>>]

\* C4 as stated, its first half: in the text a copy has written, every
\* CDATA section ends at the "]]>" the copy wrote to end it and nowhere
\* before, in a file's section and in the preamble's.
C4_SectionsEndAtTheirOwnMarker ==
  Copied => ReadSections(clipboard, 1) = WrittenSections

\* A copy has written a preamble that holds "]]>".
C4_Witness ==
  Copied /\ HoldsMarker(systemMessage)

\* C5 as stated: a paste that directly follows a paste of the same text
\* reports no file as modified and none as new, also when the text names
\* one path in several records.
C5_SecondPasteChangesNothing ==
  last.cmd = "pasteXml" /\ last.n = 2 /\ last.ok
    => changedFiles = <<>> /\ newFiles = <<>>

\* A text naming one path twice has been pasted twice in a row.
C5_Witness ==
  /\ last.cmd = "pasteXml" /\ last.n = 2 /\ last.ok
  /\ \E i, j \in 1..Len(DecodedPairs(clipboard)) :
       i # j /\ DecodedPairs(clipboard)[i].name = DecodedPairs(clipboard)[j].name

(***************************************************************************)
(* The history at its ends, and copies that change nothing                 *)
(***************************************************************************)
\* C11: a copy whose selection holds the files of the entry at the cursor,
\* in whatever order, leaves the entries and the cursor as they are, the
\* entries after the cursor included.
C11_SameSelectionKeepsHistory ==
  [][( /\ last'.cmd = "copyFiles"
       /\ GetCheckedFiles # <<>>
       /\ SetOf(GetCheckedFiles) = SetOf(LastSelection(history, historyPosition)) )
     => /\ history' = history
        /\ historyPosition' = historyPosition]_vars

\* C11 witness: a copy has left alone a history of two entries with the
\* cursor on the first, whose files it selected in another order.
C11_Witness ==
  /\ last.cmd = "copyFiles"
  /\ last.ok
  /\ last.n = 0
  /\ Len(history) = 2
  /\ historyPosition = 0
  /\ SetOf(GetCheckedFiles) = SetOf(history[1])
  /\ GetCheckedFiles # history[1]

\* C12: go back with no entry before the cursor, and go forward with none
\* after it (an empty history included), show a warning and leave the
\* entries, the cursor and the check-state map as they are.
C12_HistoryEndsAreNoOps ==
  [][( \/ last'.cmd = "goBack" /\ historyPosition <= 0
       \/ last'.cmd = "goForward" /\ historyPosition >= Len(history) - 1 )
     => /\ last'.warned
        /\ history' = history
        /\ historyPosition' = historyPosition
        /\ checkedItems' = checkedItems]_vars

\* C12 witness: go back has warned on the first of two entries with files
\* checked.
C12_Witness ==
  /\ last.cmd = "goBack"
  /\ last.warned
  /\ Len(history) = 2
  /\ historyPosition = 0
  /\ GetCheckedFiles # <<>>

\* C13: a copy while getCheckedFiles() is empty shows a warning and does
\* nothing else: the clipboard, the history entries and the cursor stay.
C13_EmptyCopyIsNoOp ==
  [][( last'.cmd = "copyFiles" /\ GetCheckedFiles = <<>> )
     => /\ last'.warned
        /\ clipboard' = clipboard
        /\ history' = history
        /\ historyPosition' = historyPosition]_vars

\* C13 witness: a copy with nothing checked has warned while the clipboard
\* holds an earlier copy and the history its entry.
C13_Witness ==
  /\ last.cmd = "copyFiles"
  /\ last.warned
  /\ GetCheckedFiles = <<>>
  /\ clipboard # <<>>
  /\ history # <<>>

(***************************************************************************)
(* Paste                                                                   *)
(***************************************************************************)
Pasted == last.cmd = "pasteXml"

HasOpen(text, tag) == \E i \in 1..Len(text) : text[i].k = "open" /\ text[i].v = tag

\* C14: a paste of a text with no files element, or with no file entry,
\* shows an error and leaves every file and directory of storage as it is.
C14_NoEnvelopeWritesNothing ==
  [][( last'.cmd = "pasteXml"
       /\ (~HasOpen(clipboard, "files") \/ ~HasOpen(clipboard, "file")) )
     => /\ message' \in {"noFileContent", "parseError"}
        /\ storage' = storage
        /\ content' = content]_vars

\* C14 witness: a file entry with no files element around it has been
\* pasted and refused.
C14_Witness ==
  /\ Pasted
  /\ ~HasOpen(clipboard, "files")
  /\ HasOpen(clipboard, "file")
  /\ message = "noFileContent"

\* A text on which parsing fails: a CDATA section opens and never ends.
UnclosedSection(text) ==
  \E i \in 1..Len(text) : text[i] = CDataOpen /\ FindClosingIndex(text, i) = 0

\* C15: a paste of a text the parser fails on shows an error and writes no
\* file, whatever well-formed entries stand before the place of failure.
C15_ParseFailureWritesNothing ==
  [][( last'.cmd = "pasteXml" /\ UnclosedSection(clipboard) )
     => /\ message' = "parseError"
        /\ storage' = storage
        /\ content' = content]_vars

\* C15 witness: a reply whose first entry is whole and whose second is cut
\* off has been pasted and refused, the first entry's file not created.
C15_Witness ==
  /\ Pasted
  /\ clipboard = CutOff
  /\ message = "parseError"
  /\ storage[BZ] = "none"

\* The paths the records of a text name, and what the last record naming a
\* path holds for it
NamedPaths(text) ==
  {Join(DecodedPairs(text)[i].name) :
     i \in {j \in 1..Len(DecodedPairs(text)) : DecodedPairs(text)[j].name # <<>>}}

LastContent(text, p) ==
  LET S == {i \in 1..Len(DecodedPairs(text)) : Join(DecodedPairs(text)[i].name) = p}
  IN  DecodedPairs(text)[CHOOSE i \in S : \A j \in S : j <= i].content

Applied == last.cmd = "pasteXml" /\ last.ok /\ message \in {"updated", "noChange"}

EntriesFor(text, p) ==
  {i \in 1..Len(text) : /\ text[i].k = "open"
                        /\ text[i].v = "file"
                        /\ text[i].a # <<>>
                        /\ Join(text[i].a) = p}

\* Every file entry of the text is laid out as the envelope's: its CDATA
\* section opens on the entry's second line, ends, and is not empty.
InLayout(text) ==
  \A i \in 1..Len(text) :
    (text[i].k = "open" /\ text[i].v = "file")
      => /\ i + 2 <= Len(text)
         /\ text[i + 2] = CDataOpen
         /\ FindClosingIndex(text, i + 2) > i + 3

\* The CDATA section of the last entry the text has for path p
LastSectionFor(text, p) ==
  LET i == CHOOSE j \in EntriesFor(text, p) : \A l \in EntriesFor(text, p) : l <= j
  IN  SubSeq(text, i + 3, FindClosingIndex(text, i + 2) - 1)

\* C17: after a paste has applied a text, every path the text has entries
\* for holds what the last of these entries holds, however many there are.
C17_LastRecordWins ==
  [][( Applied' /\ InLayout(clipboard) )
     => \A p \in Paths \ {workspaceRoot} :
          EntriesFor(clipboard, p) # {}
            => content'[p] = LastSectionFor(clipboard, p)]_vars

\* C17 witness: a text with two entries of different content for one path
\* has been applied.
C17_Witness ==
  /\ Applied
  /\ InLayout(clipboard)
  /\ \E p \in Paths \ {workspaceRoot} :
       \E i, j \in EntriesFor(clipboard, p) :
         /\ i < j
         /\ SubSeq(clipboard, i + 3, FindClosingIndex(clipboard, i + 2) - 1)
              # LastSectionFor(clipboard, p)

\* The closing tag of the file entry a text opens at position i
EntryEnd(text, i) ==
  CHOOSE j \in (i + 1)..Len(text) :
    /\ text[j] = Close("file")
    /\ \A l \in (i + 1)..(j - 1) : text[l] # Close("file")

\* What the text holds for the entry it opens at position i: the inside of
\* the entry's CDATA section when it has one, empty or not; else the text
\* between its tags, which is empty when there is none
EntryContent(text, i) ==
  LET e == EntryEnd(text, i)
      S == {j \in (i + 1)..(e - 1) : text[j] = CDataOpen}
      c == CHOOSE j \in S : \A l \in S : j <= l
  IN  IF S # {}
      THEN SubSeq(text, c + 1, FindClosingIndex(text, c) - 1)
      ELSE SubSeq(text, i + 1, e - 1)

\* The last entry a text has for path p
LastEntryFor(text, p) ==
  CHOOSE j \in EntriesFor(text, p) : \A l \in EntriesFor(text, p) : l <= j

\* C18 as stated: a paste that has applied a text leaves in every path the
\* text names the content of the entry's CDATA section if the entry has one,
\* also an empty one, else the entry's plain text, else the empty text.
C18_ContentFromSectionElseText ==
  [][Applied' =>
       \A p \in Paths \ {workspaceRoot} :
         EntriesFor(clipboard, p) # {}
           => content'[p] = EntryContent(clipboard, LastEntryFor(clipboard, p))]_vars

\* C18: a text whose entry for a/x.txt has an empty CDATA section has been
\* applied.
C18_Witness ==
  /\ Applied
  /\ clipboard = EmptySection
  /\ content[AX] = <<NL, NL>>

\* The text has one files element, opened before any of its file entries,
\* and at least one file entry.
OneFilesElement(text) ==
  /\ Cardinality({i \in 1..Len(text) : text[i] = Open("files", <<>>)}) = 1
  /\ \E i \in 1..Len(text) : text[i].k = "open" /\ text[i].v = "file"
  /\ \A i \in 1..Len(text) :
       (text[i].k = "open" /\ text[i].v = "file")
         => \E j \in 1..(i - 1) : text[j] = Open("files", <<>>)

\* The directories a write to one of the text's named paths may create
DirsFor(text) ==
  {q \in Paths : \E p \in Paths \ {workspaceRoot} :
                   EntriesFor(text, p) # {} /\ q # p /\ StartsWith(p, q)}

\* C19: a paste of a text with one entry or with several applies it; every
\* path an entry names holds that entry's content afterwards, whether or
\* not an entry without a name stands before or after it, and nothing is
\* written anywhere else.
C19_NamelessEntrySkipped ==
  [][( Pasted' /\ OneFilesElement(clipboard) /\ InLayout(clipboard) )
     => /\ Applied'
        /\ \A p \in Paths \ {workspaceRoot} :
             IF EntriesFor(clipboard, p) # {}
             THEN /\ ExistsSync(storage', p)
                  /\ content'[p] = LastSectionFor(clipboard, p)
             ELSE /\ content'[p] = content[p]
                  /\ p \notin DirsFor(clipboard) => storage'[p] = storage[p]
        /\ storage'[workspaceRoot] = storage[workspaceRoot]
        /\ content'[workspaceRoot] = content[workspaceRoot]]_vars

\* C19 witness: the text with a nameless entry between two named ones has
\* been applied, both named entries written.
C19_Witness ==
  /\ Applied
  /\ clipboard = NamelessBetween
  /\ storage[BZ] = "file"
  /\ content[BZ] = <<NL, Ch("c"), NL>>
  /\ content[AX] = <<NL, Ch("d"), NL>>

\* C19 witness of the single entry: a reply with one entry has been applied.
C19_WitnessSingle ==
  /\ Applied
  /\ clipboard = Reply(<<[name |-> Relative(BZ), content |-> <<Ch("c")>>]>>)
  /\ newFiles = <<Relative(BZ)>>

\* The places where a text opens an element with the given tag
OpeningsOf(text, tag) == {i \in 1..Len(text) : text[i] = Open(tag, <<>>)}

\* C20: the text a copy has written opens a systemMessage element exactly
\* when the setting holds something other than whitespace; the element then
\* stands first, before the files element, and the text opens one files
\* element in either case.
C20_SystemMessageBlock ==
  Copied =>
    /\ OpeningsOf(clipboard, "systemMessage") # {}
         <=> \E i \in 1..Len(systemMessage) : systemMessage[i] \notin Whitespace
    /\ Cardinality(OpeningsOf(clipboard, "files")) = 1
    /\ \A i \in OpeningsOf(clipboard, "systemMessage") :
         /\ i = 1
         /\ \A j \in OpeningsOf(clipboard, "files") : i < j
         /\ \E j \in OpeningsOf(clipboard, "files") :
              clipboard[j - 2] = Close("systemMessage")

\* C20 witness: a copy made with a setting of whitespace only, and so with
\* no systemMessage element
C20_Witness ==
  /\ Copied
  /\ systemMessage = <<Ch(" "), NL>>
  /\ OpeningsOf(clipboard, "systemMessage") = {}
  /\ OpeningsOf(clipboard, "files") = {1}

\* C20 witness of the block: a copy made with a plain setting
C20_WitnessBlock ==
  /\ Copied
  /\ systemMessage = <<Ch("s")>>
  /\ OpeningsOf(clipboard, "systemMessage") = {1}
  /\ OpeningsOf(clipboard, "files") = {11}

\* The file elements a text opens, in the text's order
FileOpenings(text) ==
  SelectSeq(text, LAMBDA tok : tok.k = "open" /\ tok.v = "file")

\* C21: the text a copy has written opens one file element for each checked
\* file, in the order getCheckedFiles gives them, each named by the file's
\* path relative to the workspace folder, all of them between the opening
\* and the closing of the text's one files element.
C21_OneEntryPerRecord ==
  Copied =>
    /\ FileOpenings(clipboard)
         = [i \in 1..Len(GetCheckedFiles) |->
              Open("file", SubSeq(GetCheckedFiles[i], Len(workspaceRoot) + 1,
                                  Len(GetCheckedFiles[i])))]
    /\ Cardinality(OpeningsOf(clipboard, "files")) = 1
    /\ clipboard[Len(clipboard)] = Close("files")
    /\ \A i \in 1..Len(clipboard) :
         (clipboard[i].k = "open" /\ clipboard[i].v = "file")
           => \E j \in 1..(i - 1) : clipboard[j] = Open("files", <<>>)

\* C21 witness: a copy of two checked files
C21_Witness ==
  /\ Copied
  /\ GetCheckedFiles = <<AX, AY>>
  /\ FileOpenings(clipboard) = <<Open("file", <<"a", "x.txt">>),
                                 Open("file", <<"a", "y.txt">>)>>

\* The commands that write to the map of check states
MapCommands == {"updateCheckState", "clearChecks", "goBack", "goForward"}

\* C22 as stated: whenever updateCheckState, clearChecks or setCheckedFiles
\* has changed the map, it has fired onDidChangeTreeData, also when one of
\* its storage calls has failed.
C22_ChangeIsSignalled ==
  [][(last'.cmd \in MapCommands /\ checkedItems' # checkedItems) => fired']_vars

\* C22: setCheckedFiles has cleared a map that held entries and has ended at
\* a readdir that failed, nothing fired.
C22_Witness ==
  /\ last.cmd = "goBack"
  /\ ~last.ok
  /\ ~last.warned
  /\ checkedItems = <<>>
  /\ ~fired

Listed == last.cmd = "getChildren"

\* C23 as stated: getChildren for a directory that is gone from storage
\* resolves to the empty list; its promise does not reject.
C23_VanishedDirectoryListsEmpty ==
  (Listed /\ storage[last.key] = "none") => (last.ok /\ last.items = <<>>)

\* C23: the directory a has been removed and getChildren has been called
\* for the element the view holds for it; the call rejected.
C23_Witness ==
  /\ Listed
  /\ last.key = A
  /\ storage[A] = "none"
  /\ ~last.ok

\* C24 as stated: in every list getChildren resolves to, the items that are
\* directories (a link counted as what it leads to) stand before the items
\* that are not, and the items of either group stand in the order of their
\* names.
C24_DirectoriesFirstThenByName ==
  (Listed /\ last.ok) =>
    \A i, j \in 1..Len(last.items) :
      i < j =>
        /\ last.items[j].isDirectory => last.items[i].isDirectory
        /\ (last.items[i].isDirectory = last.items[j].isDirectory)
             => Rank(last.items[i].path) < Rank(last.items[j].path)

\* C24: the directory a has been listed where a/k is a link to a file; the
\* link stands before the directory a/s.
C24_Witness ==
  /\ Listed
  /\ last.key = A
  /\ storage[AK] = "linkFile"
  /\ Len(last.items) = 3
  /\ last.items[1].path = AK /\ ~last.items[1].isDirectory
  /\ last.items[2].path = AS /\ last.items[2].isDirectory

\* The paths of the items of a list
ItemPaths(items) == {items[i].path : i \in 1..Len(items)}

\* C25: getChildren for a directory of storage resolves, and to the entries
\* of the directory without the links that lead nowhere: no such link is in
\* the list and no other entry is missing from it.
C25_BrokenLinkLeftOut ==
  (Listed /\ storage[last.key] = "dir") =>
    /\ last.ok
    /\ ItemPaths(last.items)
         = {p \in Paths : /\ Len(p) = Len(last.key) + 1
                          /\ SubSeq(p, 1, Len(last.key)) = last.key
                          /\ storage[p] \notin {"none", "linkBroken"}}
    /\ \A i, j \in 1..Len(last.items) :
         last.items[i].path = last.items[j].path => i = j

\* C25 witness: the directory a has been listed where a/k is a link that
\* leads nowhere; the list holds a/s and a/x.txt.
C25_Witness ==
  /\ Listed
  /\ last.key = A
  /\ storage[AK] = "linkBroken"
  /\ Len(last.items) = 2
  /\ last.items[1].path = AS
  /\ last.items[2].path = AX

\* The directories above path p, from its parent up to the workspace folder
AncestorsOf(p) == {D \in Paths : D # p /\ StartsWith(p, D)}

\* C26: after updateCheckState(p) has run to its end, every directory above
\* p up to the workspace folder has an entry, Checked exactly when it has a
\* non-ignored child and all its non-ignored children are Checked; nothing
\* above the workspace folder has an entry.
C26_AncestorsRecomputed ==
  (last.cmd = "updateCheckState" /\ last.ok) =>
    /\ \A D \in AncestorsOf(last.key) :
         /\ MapHas(checkedItems, D)
         /\ MapGet(checkedItems, D) = Checked
              <=> (NonIgnoredChildren(D) # {} /\ AllChildrenChecked(D))
    /\ \A i \in 1..Len(checkedItems) : checkedItems[i].key \in Paths

\* C26 witness: a/x.txt has been checked beside an unchecked a/y.txt; a is
\* Unchecked and the workspace folder above it has been recomputed too.
C26_Witness ==
  /\ last.cmd = "updateCheckState" /\ last.ok
  /\ last.key = AX /\ last.state = Checked
  /\ storage[AY] = "file"
  /\ MapGet(checkedItems, AY) # Checked
  /\ MapGet(checkedItems, A) = Unchecked
  /\ MapGet(checkedItems, workspaceRoot) = Unchecked

\* The step is updateCheckState(p, ...) for a directory item, run to its end
ToggledDirectory(p) ==
  /\ last'.cmd = "updateCheckState"
  /\ last'.ok
  /\ last'.key = p
  /\ StatIsDirectory(storage, p)

\* What is below directory p
Below(p) == {q \in Paths : q # p /\ StartsWith(q, p)}

\* C27: updateCheckState for a directory that no rule and no ignored
\* extension matches leaves the entry of every ignored path below it as it
\* was, and with it whether getCheckedFiles() returns the path.
C27_IgnoredDescendantsKept ==
  [][\A p \in Paths :
       (ToggledDirectory(p) /\ ~isGitIgnored(p) /\ ~isIgnoredExtension(p)) =>
         \A q \in Below(p) :
           (isGitIgnored(q) \/ isIgnoredExtension(q)) =>
             /\ MapGet(checkedItems', q) = MapGet(checkedItems, q)
             /\ q \in SetOf(GetCheckedFilesOf(storage', checkedItems'))
                  <=> q \in SetOf(GetCheckedFiles)]_vars

\* C27 witness: b has been unchecked under the rule b/ after b/z.txt was
\* checked by itself; b/z.txt is still Checked and still returned.
C27_Witness ==
  /\ last.cmd = "updateCheckState" /\ last.ok
  /\ last.key = B /\ last.state = Unchecked
  /\ gitignore = {BZ}
  /\ MapGet(checkedItems, BZ) = Checked
  /\ BZ \in SetOf(GetCheckedFiles)

\* The entries of directory p
ChildrenOf(p) == {q \in Paths : Dirname(q) = p /\ storage[q] # "none"}

\* C28 as stated: updateCheckState for a directory that a rule or an ignored
\* extension matches gives the new state to every entry of the directory,
\* ignored or not.
C28_IgnoredDirectoryPropagates ==
  [][\A p \in Paths :
       (ToggledDirectory(p) /\ (isGitIgnored(p) \/ isIgnoredExtension(p))) =>
         \A q \in ChildrenOf(p) : MapGet(checkedItems', q) = last'.state]_vars

\* C28: with the setting empty, which makes every name without an extension
\* ignored, a has been checked; a/s below it has no entry.
C28_Witness ==
  /\ last.cmd = "updateCheckState" /\ last.ok
  /\ last.key = A /\ last.state = Checked
  /\ "" \in ignoredExtensions
  /\ storage[AS] = "dir"
  /\ ~MapHas(checkedItems, AS)
  /\ MapGet(checkedItems, AX) = Checked

\* The state of the nearest directory above q that has an entry in map m,
\* "undefined" when none has
NearestAncestorState(m, q) ==
  LET S == {D \in AncestorsOf(q) : MapHas(m, D)}
  IN  IF S = {} THEN "undefined"
      ELSE MapGet(m, CHOOSE D \in S : \A E \in S : Len(E) <= Len(D))

\* C29 as stated: getChildren reports an entry that has an entry in the map
\* with that state; one that has none it reports Checked when it is not
\* ignored and the nearest directory above it that has an entry is Checked,
\* and Unchecked otherwise.
C29_StateLookedUpOrInherited ==
  [][(last'.cmd = "getChildren" /\ last'.ok) =>
       \A i \in 1..Len(last'.items) :
         LET q == last'.items[i].path
         IN  last'.items[i].checkboxState =
               IF MapHas(checkedItems, q) THEN MapGet(checkedItems, q)
               ELSE IF /\ ~isGitIgnored(q) /\ ~isIgnoredExtension(q)
                       /\ NearestAncestorState(checkedItems, q) = Checked
               THEN Checked ELSE Unchecked]_vars

\* C29: a has been listed while it has no entry and the workspace folder
\* above it is Checked; a/x.txt, not ignored and without an entry, is
\* reported Unchecked.
C29_Witness ==
  /\ Listed /\ last.ok
  /\ last.key = A
  /\ MapGet(checkedItems, workspaceRoot) = Checked
  /\ ~MapHas(checkedItems, A)
  /\ ~MapHas(checkedItems, AX)
  /\ ~isIgnoredExtension(AX)
  /\ \E i \in 1..Len(last.items) :
       last.items[i].path = AX /\ last.items[i].checkboxState = Unchecked

\* C30 as stated: getChildren leaves the map of check states as it is, and
\* with it what getCheckedFiles() returns.
C30_ListingIsARead ==
  [][last'.cmd = "getChildren" =>
       /\ checkedItems' = checkedItems
       /\ GetCheckedFilesOf(storage', checkedItems') = GetCheckedFiles]_vars

\* C30: a was checked, a/y.txt was created in it, and a has been listed:
\* a/y.txt, never checked by the user, has an entry Checked and is among
\* the files getCheckedFiles() returns.
C30_Witness ==
  /\ Listed /\ last.ok
  /\ last.key = A
  /\ issued = 1
  /\ storage[AY] = "file"
  /\ MapGet(checkedItems, AY) = Checked
  /\ AY \in SetOf(GetCheckedFiles)

\* The entries of directory D that getChildren shows and that are not
\* ignored: the links that lead nowhere are not among them
ShownNonIgnored(D) == {p \in NonIgnoredChildren(D) : ExistsSync(storage, p)}

\* The user has just checked an entry of D, and every non-ignored entry the
\* listing of D shows is Checked.
AllShownChecked(D) ==
  /\ last.cmd = "updateCheckState" /\ last.ok /\ last.state = Checked
  /\ Dirname(last.key) = D
  /\ ShownNonIgnored(D) # {}
  /\ \A p \in ShownNonIgnored(D) : MapGet(checkedItems, p) = Checked

\* C31 as stated: once the user has checked every non-ignored entry that the
\* listing of a directory shows, the directory is Checked; a link that leads
\* nowhere, which the listing leaves out, does not count.
C31_ShownEntriesDecide ==
  \A D \in Directories : AllShownChecked(D) => MapGet(checkedItems, D) = Checked

\* C31: beside a link that leads nowhere, a/s and a/x.txt have been
\* checked, all that the listing of a shows; a is Unchecked.
C31_Witness ==
  /\ storage[AK] = "linkBroken"
  /\ AllShownChecked(A)
  /\ ~MapHas(checkedItems, AK)
  /\ MapGet(checkedItems, A) = Unchecked

\* historyPosition is -1 exactly when history is empty, and an index of
\* history otherwise (the array's indices start at 0).
CursorInHistory ==
  /\ historyPosition = -1 <=> history = <<>>
  /\ history # <<>> => (0 <= historyPosition /\ historyPosition <= Len(history) - 1)

\* C32: the cursor is -1 exactly when the history is empty and otherwise an
\* index of the history, in every state; and a copy that has appended an
\* entry leaves the cursor on the last entry.
C32_CursorConsistent ==
  /\ []CursorInHistory
  /\ [][(last'.cmd = "copyFiles" /\ history' # history)
          => historyPosition' = Len(history') - 1]_vars

\* C32 witness: the cursor stands on the first of two entries after a go
\* back, below the last index.
C32_Witness ==
  /\ last.cmd = "goBack"
  /\ last.ok
  /\ Len(history) = 2
  /\ historyPosition = 0

\* C33: no entry of the history is empty, and no entry holds the same files
\* as the entry after it.
C33_NoEmptyNoRepeatedEntry ==
  /\ \A i \in 1..Len(history) : history[i] # <<>>
  /\ \A i \in 1..(Len(history) - 1) : SetOf(history[i]) # SetOf(history[i + 1])

\* C33 witness: with two entries in the history and the cursor on the
\* second, the files of the second have been copied again, checked in
\* another order; no entry has been added.
C33_Witness ==
  /\ last.cmd = "copyFiles"
  /\ last.ok
  /\ last.n = 0
  /\ Len(history) = 2
  /\ historyPosition = 1
  /\ SetOf(GetCheckedFiles) = SetOf(history[2])
  /\ GetCheckedFiles # history[2]

\* C34 as stated: a copy that fails before it has written the clipboard
\* leaves the history entries and the cursor as they were.
C34_FailedCopyKeepsHistory ==
  [][(last'.cmd = "copyFiles" /\ ~last'.ok)
       => (history' = history /\ historyPosition' = historyPosition)]_vars

\* C34: a copy has failed at reading a checked link to a directory, the
\* clipboard still empty, and its selection is in the history.
C34_Witness ==
  /\ last.cmd = "copyFiles"
  /\ ~last.ok
  /\ ~last.warned
  /\ clipboard = <<>>
  /\ history = <<GetCheckedFiles>>
  /\ \E i \in 1..Len(GetCheckedFiles) : ~CanReadFile(storage, GetCheckedFiles[i])

\* C35 as stated: a go back or go forward whose setCheckedFiles fails at a
\* storage call leaves the cursor and the map of check states as they were.
C35_FailedRestoreKeepsState ==
  [][(last'.cmd \in {"goBack", "goForward"} /\ ~last'.ok /\ ~last'.warned)
       => (historyPosition' = historyPosition /\ checkedItems' = checkedItems)]_vars

\* C35: after the directory a was removed, go back has failed from the
\* second of two entries; the cursor stands on the first and the map is
\* empty.
C35_Witness ==
  /\ last.cmd = "goBack"
  /\ ~last.ok
  /\ ~last.warned
  /\ storage[A] = "none"
  /\ Len(history) = 2
  /\ historyPosition = 0
  /\ checkedItems = <<>>

\* C36 as stated: a paste directly after a copy, of the text the copy has
\* written, writes nothing and reports no file as new or modified.
C36_PasteOfCopyChangesNothing ==
  [][(Copied /\ last'.cmd = "pasteXml")
       => /\ storage' = storage
          /\ content' = content
          /\ changedFiles' = <<>>
          /\ newFiles' = <<>>
          /\ message' = "noChange"]_vars

\* C36: the text copied from a/x.txt, which holds "a", has been pasted; the
\* file is reported modified and holds a line break before and after.
C36_Witness ==
  /\ Applied
  /\ last.n = 1
  /\ clipboard = generateXmlOutput([content EXCEPT ![AX] = <<Ch("a")>>], <<AX>>)
  /\ changedFiles = <<Relative(AX)>>
  /\ content[AX] = <<NL, Ch("a"), NL>>

\* C37 as stated: a paste reports no path twice, neither as new and
\* modified nor twice in one of the two lists.
C37_ReportedOnce ==
  Pasted =>
    /\ SetOf(newFiles) \cap SetOf(changedFiles) = {}
    /\ Cardinality(SetOf(newFiles)) = Len(newFiles)
    /\ Cardinality(SetOf(changedFiles)) = Len(changedFiles)

\* C37: a text with two entries for a/x.txt, the second unlike the first,
\* has been applied; a/x.txt is in the list of modified files twice.
C37_Witness ==
  /\ Applied
  /\ changedFiles = <<Relative(AX), Relative(AX)>>
  /\ newFiles = <<>>

\* The paths whose entry or content differ between two states of the disk
Touched(st0, ct0, st1, ct1) ==
  {p \in Paths : st0[p] # st1[p] \/ ct0[p] # ct1[p]}

\* C38 as stated: apply only ever creates directories and writes files
\* inside the workspace root: whatever the decoded name attributes are,
\* names with parent-directory segments or a leading separator included,
\* every path a paste creates or writes has the workspace root as an
\* ancestor.
C38_WritesStayInWorkspace ==
  [][last'.cmd = "pasteXml"
       => \A p \in Touched(storage, content, storage', content') :
            StartsWith(p, workspaceRoot) /\ p # workspaceRoot]_vars

\* C38 witness: a paste of the entry named ../o.txt was applied, and the
\* file o.txt now exists in the folder above the workspace root.
C38_Witness ==
  /\ Applied
  /\ clipboard = Escaping
  /\ newFiles = <<<<"..", "o.txt">>>>
  /\ storage[Outside] = "file"
  /\ content[Outside] = <<NL, Ch("c"), NL>>

=============================================================================
